---------------------------- MODULE Spec2Model ----------------------------
(***************************************************************************)
(* Model of the NPC name generator (js/generator.js, js/levenshtein.js).   *)
(*                                                                         *)
(* A name is a sequence of one-character strings.  The generator object's  *)
(* fields are the variables; loadData, generate, the generate loop and     *)
(* getStats are the actions.  The files served under npcs/ are the         *)
(* operators Manifest and Fetch; the responses of the two blacklist files  *)
(* are chosen anew at every load.                                          *)
(*                                                                         *)
(* Spec      calls made one after the other, loadData as one step          *)
(* SpecPools loadData and getStats only: the pools of every dataset        *)
(* SpecLev   levenshteinDistance on every pair of short strings            *)
(* SpecConc  loadData one step per await, interleaved with other calls     *)
(* SpecUI    the generate button: clicks and the runs of the click handler *)
(***************************************************************************)
EXTENDS Integers, Sequences, FiniteSets, TLC

VARIABLES
    allFirstnames,          \* [{name, source}, ...]
    allLastnames,           \* [{name, source}, ...]
    blacklistedFirstnames,  \* Set of lowercased names
    blacklistedLastnames,   \* Set of lowercased names
    loaded,
    currentRace,
    currentSex,
    existingPairsCache,     \* [built, pairs]: this._existingPairsCache
    pc,                     \* "idle", or "loop" inside generate's while loop
    count,                  \* generate's parameters and locals
    sourceFilter,
    firstnames,
    lastnames,
    results,
    attempted,
    attempts,
    draws,                  \* Math.random() calls made by the running generate
    lastCall,               \* the last call made: arguments, responses, outcome
    lastLoad,               \* how the last loadData ended: "none" before any,
                            \* "ok", "failed", or "failedAfterOk" when the load
                            \* before it had succeeded
    levA,                   \* levenshteinDistance's arguments and result, for
    levB,                   \* the study of the function on its own
    levDistance,
    inFlight,               \* the loadData calls suspended at an await
    nextLoadId,             \* the number of the next loadData call
    origin,                 \* the loadData call that last set each field's
                            \* value (a blacklist it set or chose to keep),
                            \* and the calls whose records the cache is from
    btnDisabled,            \* generateBtn.disabled
    output,                 \* what output.innerHTML shows
    handlerRuns             \* the runs of the click handler not yet finished

vars == <<allFirstnames, allLastnames, blacklistedFirstnames,
          blacklistedLastnames, loaded, currentRace, currentSex,
          existingPairsCache, pc, count, sourceFilter, firstnames, lastnames,
          results, attempted, attempts, draws, lastCall, lastLoad,
          levA, levB, levDistance, inFlight, nextLoadId, origin,
          btnDisabled, output, handlerRuns>>

dataVars == <<allFirstnames, allLastnames, blacklistedFirstnames,
              blacklistedLastnames, loaded, currentRace, currentSex>>

frameVars == <<count, sourceFilter, firstnames, lastnames, results,
               attempted, attempts, draws>>

levVars == <<levA, levB, levDistance>>

uiVars == <<btnDisabled, output, handlerRuns>>

loadVars == <<inFlight, nextLoadId>>

-----------------------------------------------------------------------------
(* Bounds *)

MaxCount == 2

Counts == 0..MaxCount

-----------------------------------------------------------------------------
(* Strings *)

Lower(ch) ==
    CASE ch = "A" -> "a"
      [] ch = "C" -> "c"
      [] OTHER -> ch

toLowerCase(s) == [i \in 1..Len(s) |-> Lower(s[i])]

RECURSIVE trimStart(_)
trimStart(s) ==
    IF s # <<>> /\ Head(s) = " " THEN trimStart(Tail(s)) ELSE s

RECURSIVE trimEnd(_)
trimEnd(s) ==
    IF s # <<>> /\ s[Len(s)] = " "
    THEN trimEnd(SubSeq(s, 1, Len(s) - 1))
    ELSE s

trim(s) == trimEnd(trimStart(s))

startsWith(s, ch) == s # <<>> /\ Head(s) = ch

\* `${a}|${b}`
PairKey(a, b) == a \o <<"|">> \o b

\* index of the first "|" of s at or after position i, Len(s) + 1 when none
RECURSIVE indexOfBar(_, _)
indexOfBar(s, i) ==
    IF i > Len(s) THEN Len(s) + 1
    ELSE IF s[i] = "|" THEN i
    ELSE indexOfBar(s, i + 1)

\* const [existingFn, existingLn] = existing.split('|'), for a key holding a "|"
splitFn(key) == SubSeq(key, 1, indexOfBar(key, 1) - 1)

splitLn(key) ==
    LET first == indexOfBar(key, 1)
    IN  SubSeq(key, first + 1, indexOfBar(key, first + 1) - 1)

Min2(x, y) == IF x < y THEN x ELSE y

\* (mutant) a differing character costs a deletion and an insertion
levenshteinDistance_NoSubstitution(a, b) ==
    LET aLower == toLowerCase(a)
        bLower == toLowerCase(b)
        matrix[i \in 0..Len(bLower), j \in 0..Len(aLower)] ==
            IF i = 0 THEN j
            ELSE IF j = 0 THEN i
            ELSE IF bLower[i] = aLower[j] THEN matrix[i - 1, j - 1]
            ELSE Min2(matrix[i, j - 1] + 1, matrix[i - 1, j] + 1)
    IN  IF aLower = bLower THEN 0
        ELSE IF Len(aLower) = 0 THEN Len(bLower)
        ELSE IF Len(bLower) = 0 THEN Len(aLower)
        ELSE matrix[Len(bLower), Len(aLower)]

\* (mutant) only the first argument is lowercased
levenshteinDistance_SecondNotLowered(a, b) ==
    LET aLower == toLowerCase(a)
        bLower == b
        matrix[i \in 0..Len(bLower), j \in 0..Len(aLower)] ==
            IF i = 0 THEN j
            ELSE IF j = 0 THEN i
            ELSE IF bLower[i] = aLower[j] THEN matrix[i - 1, j - 1]
            ELSE Min2(matrix[i - 1, j - 1] + 1,
                      Min2(matrix[i, j - 1] + 1, matrix[i - 1, j] + 1))
    IN  IF aLower = bLower THEN 0
        ELSE IF Len(aLower) = 0 THEN Len(bLower)
        ELSE IF Len(bLower) = 0 THEN Len(aLower)
        ELSE matrix[Len(bLower), Len(aLower)]

levenshteinDistance(a, b) ==
    LET aLower == toLowerCase(a)
        bLower == toLowerCase(b)
        matrix[i \in 0..Len(bLower), j \in 0..Len(aLower)] ==
            IF i = 0 THEN j
            ELSE IF j = 0 THEN i
            ELSE IF bLower[i] = aLower[j] THEN matrix[i - 1, j - 1]
            ELSE Min2(matrix[i - 1, j - 1] + 1,
                      Min2(matrix[i, j - 1] + 1, matrix[i - 1, j] + 1))
    IN  IF aLower = bLower THEN 0
        ELSE IF Len(aLower) = 0 THEN Len(bLower)
        ELSE IF Len(bLower) = 0 THEN Len(aLower)
        ELSE matrix[Len(bLower), Len(aLower)]

Threshold == 3

areTooSimilar(name1, name2, threshold) ==
    levenshteinDistance(name1, name2) < threshold

-----------------------------------------------------------------------------
(* The files served under npcs/ *)

abc == <<"a", "b", "c">>
Abc == <<"A", "b", "c">>
abd == <<"a", "b", "d">>
add == <<"a", "d", "d">>
ddd == <<"d", "d", "d">>
abb == <<"a", "b", "b">>
aBarb == <<"a", "|", "b">>
lnc == <<"c">>
lnC == <<"C">>
lnd == <<"d">>

Races == {"darkelf", "imperial", "breton", "nord", "redguard", "khajiit", "orc"}
Sexes == {"male", "female"}
SourceFilters == {"all", "vanilla", "expanded"}

defaultFiles == <<"vanilla.txt", "tr.txt", "sky.txt", "pc.txt">>

\* a fetch ends in a non-ok response, an ok response with the file's lines, or
\* a rejected promise
NotOk == [ok |-> FALSE, threw |-> FALSE, text |-> <<>>]
Ok(lines) == [ok |-> TRUE, threw |-> FALSE, text |-> lines]
Threw == [ok |-> FALSE, threw |-> TRUE, text |-> <<>>]

firstnameDir(race, sex) == <<race, "firstnames", sex>>
lastnameDir(race) == <<race, "lastnames", "">>

\* fetch(`${basePath}/manifest.json`): the manifest's files, when it is served
Manifest(basePath) ==
    CASE basePath = lastnameDir("breton") ->
            [ok |-> TRUE, files |-> <<"custom.txt", "vanilla.txt">>]
      [] basePath = firstnameDir("breton", "male") ->
            [ok |-> TRUE, files |-> <<"custom.txt">>]
      [] OTHER -> [ok |-> FALSE, files |-> <<>>]

\* fetch(`${basePath}/${filename}`): the file's lines, when it is served
Fetch(basePath, filename) ==
    CASE basePath = lastnameDir("darkelf") /\ filename = "vanilla.txt" -> Ok(<<lnc>>)
      [] basePath = lastnameDir("darkelf") /\ filename = "tr.txt" -> Ok(<<lnd>>)
      [] basePath = firstnameDir("darkelf", "male") /\ filename = "vanilla.txt" -> Ok(<<abc>>)
      [] basePath = firstnameDir("darkelf", "male") /\ filename = "tr.txt" -> Ok(<<Abc, abd>>)
      [] basePath = firstnameDir("darkelf", "female") /\ filename = "vanilla.txt" -> Ok(<<abc>>)
      [] basePath = firstnameDir("darkelf", "female") /\ filename = "tr.txt" -> Ok(<<ddd>>)
      [] basePath = lastnameDir("imperial") /\ filename = "vanilla.txt" -> Ok(<<lnc>>)
      [] basePath = firstnameDir("imperial", "male") /\ filename = "vanilla.txt" -> Ok(<<abc>>)
      [] basePath = firstnameDir("imperial", "male") /\ filename = "tr.txt" -> Ok(<<add, ddd>>)
      [] basePath = firstnameDir("imperial", "female") /\ filename = "vanilla.txt" -> Ok(<<aBarb>>)
      [] basePath = firstnameDir("imperial", "female") /\ filename = "tr.txt" -> Ok(<<abb>>)
      [] basePath = lastnameDir("breton") /\ filename = "vanilla.txt" ->
            Ok(<< <<"#", "d">>, <<" ", "c", " ">>, <<>> >>)
      [] basePath = lastnameDir("breton") /\ filename = "custom.txt" -> Ok(<<lnd>>)
      [] basePath = lastnameDir("breton") /\ filename = "pc.txt" -> Ok(<<lnC>>)
      [] basePath = firstnameDir("breton", "male") /\ filename = "vanilla.txt" ->
            Ok(<< <<" ">>, abc >>)
      [] basePath = firstnameDir("breton", "male") /\ filename = "custom.txt" -> Ok(<<ddd>>)
      [] basePath = lastnameDir("nord") /\ filename = "vanilla.txt" -> Ok(<<lnc>>)
      [] basePath = lastnameDir("nord") /\ filename = "pc.txt" -> Ok(<<lnC>>)
      [] basePath = firstnameDir("nord", "male") /\ filename = "vanilla.txt" -> Ok(<<abc, Abc>>)
      [] basePath = firstnameDir("nord", "female") /\ filename = "sky.txt" -> Ok(<<ddd>>)
      [] basePath = firstnameDir("redguard", "male") /\ filename = "vanilla.txt" -> Ok(<<abc>>)
      [] basePath = lastnameDir("khajiit") /\ filename = "vanilla.txt" -> Ok(<<lnc>>)
      [] basePath = lastnameDir("khajiit") /\ filename = "pc.txt" -> Ok(<<lnC>>)
      [] basePath = firstnameDir("khajiit", "male") /\ filename = "vanilla.txt" -> Ok(<<abc>>)
      [] basePath = firstnameDir("khajiit", "male") /\ filename = "sky.txt" -> Ok(<<abd>>)
      [] basePath = lastnameDir("orc") /\ filename = "vanilla.txt" -> Ok(<<lnd>>)
      [] basePath = firstnameDir("orc", "male") /\ filename = "tr.txt" -> Ok(<<abd>>)
      [] OTHER -> NotOk

\* what fetch('npcs/blacklist_firstnames.txt') and
\* fetch('npcs/blacklist_lastnames.txt') can answer at one load
FnBlacklistResponses == {NotOk, Threw, Ok(<< <<"#", "a">>, <<" ", "A", "b", "c">> >>)}
LnBlacklistResponses == {NotOk, Threw, Ok(<< lnC >>)}

\* filename.replace('.txt', '')
sourceOf(filename) ==
    CASE filename = "vanilla.txt" -> "vanilla"
      [] filename = "tr.txt" -> "tr"
      [] filename = "sky.txt" -> "sky"
      [] filename = "pc.txt" -> "pc"
      [] filename = "custom.txt" -> "custom"
      [] OTHER -> filename

-----------------------------------------------------------------------------
(* Parsing and loading *)

RECURSIVE SelectNames(_)
SelectNames(lines) ==
    IF lines = <<>> THEN <<>>
    ELSE LET line == Head(lines)
         IN  IF line # <<>> /\ ~startsWith(line, "#")
             THEN <<line>> \o SelectNames(Tail(lines))
             ELSE SelectNames(Tail(lines))

parseNameFile(text) ==
    SelectNames([i \in 1..Len(text) |-> trim(text[i])])

parseBlacklist(text) ==
    LET lines == SelectNames([i \in 1..Len(text) |-> toLowerCase(trim(text[i]))])
    IN  {lines[i] : i \in 1..Len(lines)}

includes(seq, x) == \E i \in 1..Len(seq) : seq[i] = x

RECURSIVE mergeFiles(_, _)
mergeFiles(filesToLoad, more) ==
    IF more = <<>> THEN filesToLoad
    ELSE IF includes(filesToLoad, Head(more))
         THEN mergeFiles(filesToLoad, Tail(more))
         ELSE mergeFiles(Append(filesToLoad, Head(more)), Tail(more))

RECURSIVE loadFiles(_, _)
loadFiles(basePath, filesToLoad) ==
    IF filesToLoad = <<>> THEN <<>>
    ELSE LET filename == Head(filesToLoad)
             response == Fetch(basePath, filename)
             names == parseNameFile(response.text)
             records == [i \in 1..Len(names) |->
                            [name |-> names[i], source |-> sourceOf(filename)]]
         IN  (IF response.ok THEN records ELSE <<>>)
                 \o loadFiles(basePath, Tail(filesToLoad))

loadDirectory(basePath) ==
    LET manifestResponse == Manifest(basePath)
        filesToLoad == IF manifestResponse.ok
                       THEN mergeFiles(defaultFiles, manifestResponse.files)
                       ELSE defaultFiles
    IN  loadFiles(basePath, filesToLoad)

-----------------------------------------------------------------------------
(* Pools and the existing-pair check *)

\* (mutant) only the tr files count as expanded
expandedSources_TrOnly == {"tr"}

expandedSources == {"tr", "sky", "pc"}

\* (mutant) 'expanded' filters nothing out
filterBySource_ExpandedIsAll(records, filter) ==
    IF filter = "vanilla"
    THEN SelectSeq(records, LAMBDA r : r.source = "vanilla")
    ELSE records

filterBySource(records, filter) ==
    IF filter = "vanilla"
    THEN SelectSeq(records, LAMBDA r : r.source = "vanilla")
    ELSE IF filter = "expanded"
    THEN SelectSeq(records, LAMBDA r : r.source \in expandedSources)
    ELSE records

\* (mutant) a name already seen is pushed again
RECURSIVE uniqueNames_SeenIgnored(_, _, _)
uniqueNames_SeenIgnored(filtered, blacklist, seen) ==
    IF filtered = <<>> THEN <<>>
    ELSE LET lower == toLowerCase(Head(filtered).name)
         IN  IF lower \notin blacklist
             THEN <<Head(filtered).name>>
                      \o uniqueNames_SeenIgnored(Tail(filtered), blacklist, seen)
             ELSE uniqueNames_SeenIgnored(Tail(filtered), blacklist, seen)

\* the loop over `filtered` of getFirstnames / getLastnames
RECURSIVE uniqueNames(_, _, _)
uniqueNames(filtered, blacklist, seen) ==
    IF filtered = <<>> THEN <<>>
    ELSE LET lower == toLowerCase(Head(filtered).name)
         IN  IF lower \notin blacklist /\ lower \notin seen
             THEN <<Head(filtered).name>>
                      \o uniqueNames(Tail(filtered), blacklist, seen \cup {lower})
             ELSE uniqueNames(Tail(filtered), blacklist, seen)

getFirstnames(filter) ==
    uniqueNames(filterBySource(allFirstnames, filter), blacklistedFirstnames, {})

getLastnames(filter) ==
    uniqueNames(filterBySource(allLastnames, filter), blacklistedLastnames, {})

\* (mutant) the pair set is left empty, as buildExistingCombinations leaves it
buildExistingPairs_Empty(fnRecords, lnRecords) == {}

\* the pairs generate puts in this._existingPairsCache on the first query
buildExistingPairs(fnRecords, lnRecords) ==
    {PairKey(toLowerCase(fnRecords[i].name), toLowerCase(lnRecords[j].name)) :
        <<i, j>> \in {p \in (1..Len(fnRecords)) \X (1..Len(lnRecords)) :
                        fnRecords[p[1]].source = lnRecords[p[2]].source}}

NoCache == [built |-> FALSE, pairs |-> {}]

\* (mutant) loadData leaves the cache as it found it
invalidateCache_Kept(cache) == cache

\* this._existingPairsCache = null, at the head of loadData
invalidateCache(cache) == NoCache

\* (mutant) the cache is built from the records the source filter selects
cacheAfterQuery_FilteredRecords(cache) ==
    IF ~cache.built
    THEN [built |-> TRUE,
          pairs |-> buildExistingPairs(filterBySource(allFirstnames, sourceFilter),
                                       filterBySource(allLastnames, sourceFilter))]
    ELSE cache

cacheAfterQuery(cache) ==
    IF ~cache.built
    THEN [built |-> TRUE, pairs |-> buildExistingPairs(allFirstnames, allLastnames)]
    ELSE cache

exactMatch(pairs, candidateKey) == candidateKey \in pairs

similarMatch(pairs, fnLower, lnLower) ==
    \E existing \in pairs :
        /\ splitLn(existing) = lnLower
        /\ areTooSimilar(fnLower, splitFn(existing), Threshold)

isTooSimilarToExisting(firstname, lastname, pairs) ==
    LET fnLower == toLowerCase(firstname)
        lnLower == toLowerCase(lastname)
    IN  \/ exactMatch(pairs, PairKey(fnLower, lnLower))
        \/ similarMatch(pairs, fnLower, lnLower)

-----------------------------------------------------------------------------
(* The calls *)

K == 500

NoFrame ==
    /\ count' = 0
    /\ sourceFilter' = "all"
    /\ firstnames' = <<>>
    /\ lastnames' = <<>>
    /\ results' = <<>>
    /\ attempted' = {}
    /\ attempts' = 0
    /\ draws' = 0

countSource(records, sources) ==
    Cardinality({i \in 1..Len(records) : records[i].source \in sources})

\* the object getStats returns
getStats(filter) ==
    [uniqueFirstnames |-> Len(getFirstnames(filter)),
     uniqueLastnames |-> Len(getLastnames(filter)),
     vanillaFirstnames |-> countSource(allFirstnames, {"vanilla"}),
     expandedFirstnames |-> countSource(allFirstnames, {"tr"})
                            + countSource(allFirstnames, {"sky"})
                            + countSource(allFirstnames, {"pc"}),
     vanillaLastnames |-> countSource(allLastnames, {"vanilla"}),
     expandedLastnames |-> countSource(allLastnames, {"tr"})
                           + countSource(allLastnames, {"sky"})
                           + countSource(allLastnames, {"pc"}),
     totalFirstnames |-> Len(allFirstnames),
     totalLastnames |-> Len(allLastnames),
     blacklistedFirstnames |-> Cardinality(blacklistedFirstnames),
     blacklistedLastnames |-> Cardinality(blacklistedLastnames)]

NoStats ==
    [uniqueFirstnames |-> 0, uniqueLastnames |-> 0, vanillaFirstnames |-> 0,
     expandedFirstnames |-> 0, vanillaLastnames |-> 0, expandedLastnames |-> 0,
     totalFirstnames |-> 0, totalLastnames |-> 0, blacklistedFirstnames |-> 0,
     blacklistedLastnames |-> 0]

Call(op) ==
    [op |-> op, race |-> "", sex |-> "", fnResponse |-> NotOk,
     lnResponse |-> NotOk, count |-> 0, filter |-> "", status |-> "",
     error |-> "", value |-> <<>>, stats |-> NoStats]

\* no call of levenshteinDistance is under study
NoLev ==
    /\ levA = <<>>
    /\ levB = <<>>
    /\ levDistance = -1

NoOrigin == [fn |-> 0, ln |-> 0, blFn |-> 0, blLn |-> 0, cache |-> <<0, 0>>]

\* no loadData call is suspended, and none was numbered
NoLoads ==
    /\ inFlight = {}
    /\ nextLoadId = 1
    /\ origin = NoOrigin

\* the singleton as `new NPCGenerator()` leaves it, and no call made
InitGenerator ==
    /\ allFirstnames = <<>>
    /\ allLastnames = <<>>
    /\ blacklistedFirstnames = {}
    /\ blacklistedLastnames = {}
    /\ loaded = FALSE
    /\ currentRace = "null"
    /\ currentSex = "null"
    /\ existingPairsCache = NoCache
    /\ pc = "idle"
    /\ count = 0
    /\ sourceFilter = "all"
    /\ firstnames = <<>>
    /\ lastnames = <<>>
    /\ results = <<>>
    /\ attempted = {}
    /\ attempts = 0
    /\ draws = 0
    /\ lastCall = Call("none")
    /\ lastLoad = "none"

NoOutput == [kind |-> "none", message |-> "", names |-> <<>>, stats |-> NoStats]

\* the page once loaded: the button enabled, nothing shown, no click made
NoClicks ==
    /\ btnDisabled = FALSE
    /\ output = NoOutput
    /\ handlerRuns = {}

Init ==
    /\ InitGenerator
    /\ NoLev
    /\ NoLoads
    /\ NoClicks

\* the blacklist a load leaves, given the one it found and the fetch's answer
blacklistAfter(blacklist, response) ==
    IF response.threw THEN {}
    ELSE IF response.ok THEN parseBlacklist(response.text)
    ELSE blacklist

\* the error loadData throws, "" when it returns true
loadError(fnRecords, lnRecords) ==
    IF Len(fnRecords) = 0 THEN "No firstnames found"
    ELSE IF Len(lnRecords) = 0 THEN "No lastnames found"
    ELSE ""

\* (mutant) the catch block leaves this.loaded as it was
loadedAfter_FlagKept(wasLoaded, error) == wasLoaded \/ error = ""

\* this.loaded at the end of loadData
loadedAfter(wasLoaded, error) == error = ""

\* a whole loadData call, with no other call between its awaits; the two
\* directories are read once per call
LoadData(race, sex) ==
    /\ pc = "idle"
    /\ \E fnRecords \in {loadDirectory(firstnameDir(race, sex))},
          lnRecords \in {loadDirectory(lastnameDir(race))},
          fnResponse \in FnBlacklistResponses, lnResponse \in LnBlacklistResponses :
        LET error == loadError(fnRecords, lnRecords) IN
            /\ currentRace' = race
            /\ currentSex' = sex
            /\ existingPairsCache' = invalidateCache(existingPairsCache)
            /\ allFirstnames' = fnRecords
            /\ allLastnames' = lnRecords
            /\ blacklistedFirstnames' = blacklistAfter(blacklistedFirstnames, fnResponse)
            /\ blacklistedLastnames' = blacklistAfter(blacklistedLastnames, lnResponse)
            /\ loaded' = loadedAfter(loaded, error)
            /\ lastLoad' = IF error = "" THEN "ok"
                            ELSE IF lastLoad = "ok" THEN "failedAfterOk"
                            ELSE "failed"
            /\ lastCall' = [Call("loadData") EXCEPT
                                !.race = race, !.sex = sex,
                                !.fnResponse = fnResponse, !.lnResponse = lnResponse,
                                !.status = IF error = "" THEN "ok" ELSE "error",
                                !.error = error]
    /\ UNCHANGED <<pc, frameVars, levVars, uiVars, loadVars, origin>>

\* (mutant) the lastname pool is not checked
generateError_NoLastnameCheck(filter) ==
    IF ~loaded THEN "Data not loaded"
    ELSE IF Len(getFirstnames(filter)) = 0
    THEN "No firstnames available (check source filter and blacklist)"
    ELSE ""

\* the error generate throws before its loop, "" when it reaches the loop
generateError(filter) ==
    IF ~loaded THEN "Data not loaded"
    ELSE IF Len(getFirstnames(filter)) = 0
    THEN "No firstnames available (check source filter and blacklist)"
    ELSE IF Len(getLastnames(filter)) = 0
    THEN "No lastnames available (check source filter and blacklist)"
    ELSE ""

maxAttempts(n) == n * K

\* (mutant) attempts <= maxAttempts
loopCondition_OneMoreAttempt(res, n, att) == Len(res) < n /\ att <= maxAttempts(n)

\* (mutant) results.length <= count
loopCondition_OneMoreResult(res, n, att) == Len(res) <= n /\ att < maxAttempts(n)

loopCondition(res, n, att) == Len(res) < n /\ att < maxAttempts(n)

Generate(n, filter) ==
    /\ pc = "idle"
    /\ LET error == generateError(filter)
       IN  IF error # ""
           THEN /\ lastCall' = [Call("generate") EXCEPT
                                    !.count = n, !.filter = filter,
                                    !.status = "error", !.error = error]
                /\ UNCHANGED <<dataVars, existingPairsCache, pc, frameVars, lastLoad,
                               levVars, uiVars, loadVars, origin>>
           ELSE /\ pc' = "loop"
                /\ count' = n
                /\ sourceFilter' = filter
                /\ firstnames' = getFirstnames(filter)
                /\ lastnames' = getLastnames(filter)
                /\ results' = <<>>
                /\ attempted' = {}
                /\ attempts' = 0
                /\ draws' = 0
                /\ lastCall' = [Call("generate") EXCEPT
                                    !.count = n, !.filter = filter,
                                    !.status = "running"]
                /\ UNCHANGED <<dataVars, existingPairsCache, lastLoad,
                               levVars, uiVars, loadVars, origin>>

\* (mutant) the attempted set is not consulted
attemptOutcome_NoAttemptedCheck(key, firstname, lastname, seen, pairs) ==
    IF isTooSimilarToExisting(firstname, lastname, pairs) THEN "reject"
    ELSE "accept"

\* what one pass of the while loop does with the pair it drew
attemptOutcome(key, firstname, lastname, seen, pairs) ==
    IF key \in seen THEN "repeat"
    ELSE IF isTooSimilarToExisting(firstname, lastname, pairs) THEN "reject"
    ELSE "accept"

GenerateStep ==
    /\ pc = "loop"
    /\ loopCondition(results, count, attempts)
    /\ \E i \in 1..Len(firstnames), j \in 1..Len(lastnames) :
        LET firstname == firstnames[i]
            lastname == lastnames[j]
            key == PairKey(toLowerCase(firstname), toLowerCase(lastname))
            cache == cacheAfterQuery(existingPairsCache)
            outcome == attemptOutcome(key, firstname, lastname, attempted, cache.pairs)
        IN  /\ attempts' = attempts + 1
            /\ draws' = draws + 2
            /\ attempted' = attempted \cup {key}
            /\ existingPairsCache' = IF outcome = "repeat" THEN existingPairsCache
                                     ELSE cache
            /\ origin' = IF outcome = "repeat" \/ existingPairsCache.built
                          THEN origin
                          ELSE [origin EXCEPT !.cache = <<origin.fn, origin.ln>>]
            /\ results' = IF outcome = "accept"
                          THEN Append(results, [firstname |-> firstname,
                                                lastname |-> lastname])
                          ELSE results
    /\ UNCHANGED <<dataVars, pc, count, sourceFilter, firstnames, lastnames,
                   lastCall, lastLoad, levVars, uiVars, loadVars>>

GenerateReturn ==
    /\ pc = "loop"
    /\ ~loopCondition(results, count, attempts)
    /\ pc' = "idle"
    /\ lastCall' = [lastCall EXCEPT !.status = "ok", !.value = results]
    /\ NoFrame
    /\ UNCHANGED <<dataVars, existingPairsCache, lastLoad, levVars, uiVars, loadVars, origin>>

\* (mutant) getStats counts the existing pairs, and builds the cache to do so
GetStats_CountsExisting(filter) ==
    /\ pc = "idle"
    /\ lastCall' = [Call("getStats") EXCEPT
                        !.filter = filter, !.status = "ok", !.stats = getStats(filter)]
    /\ existingPairsCache' = cacheAfterQuery(existingPairsCache)
    /\ UNCHANGED <<dataVars, pc, frameVars, lastLoad, levVars, uiVars, loadVars, origin>>

GetStats(filter) ==
    /\ pc = "idle"
    /\ lastCall' = [Call("getStats") EXCEPT
                        !.filter = filter, !.status = "ok", !.stats = getStats(filter)]
    /\ UNCHANGED <<dataVars, existingPairsCache, pc, frameVars, lastLoad,
                   levVars, uiVars, loadVars, origin>>

Next ==
    \/ \E race \in Races, sex \in Sexes : LoadData(race, sex)
    \/ \E n \in Counts, filter \in SourceFilters : Generate(n, filter)
    \/ GenerateStep
    \/ GenerateReturn
    \/ \E filter \in SourceFilters : GetStats(filter)

Spec == Init /\ [][Next]_vars

-----------------------------------------------------------------------------
(* The pools on their own.  getFirstnames and getLastnames read the records
   and the blacklists, which only loadData writes; getStats calls both.  The
   datasets and blacklists that loadData calls can leave are those of Spec. *)

NextPools ==
    \/ \E race \in Races, sex \in Sexes : LoadData(race, sex)
    \/ \E filter \in SourceFilters : GetStats(filter)

SpecPools == Init /\ [][NextPools]_vars

-----------------------------------------------------------------------------
(* levenshteinDistance on its own: every pair of strings of at most MaxLen
   characters over a small alphabet with both letter cases *)

MaxLen == 3

LevAlphabet == {"a", "A", "b"}

LevStrings == UNION {[1..n -> LevAlphabet] : n \in 0..MaxLen}

InitLev ==
    /\ InitGenerator
    /\ NoLoads
    /\ NoClicks
    /\ levA \in LevStrings
    /\ levB \in LevStrings
    /\ levDistance = -1

\* levenshteinDistance(levA, levB) is called and returns
LevCall ==
    /\ levDistance = -1
    /\ levDistance' = levenshteinDistance(levA, levB)
    /\ UNCHANGED <<dataVars, existingPairsCache, pc, frameVars, lastCall, lastLoad,
                   levA, levB, uiVars, loadVars, origin>>

NextLev == LevCall

SpecLev == InitLev /\ [][NextLev]_vars

-----------------------------------------------------------------------------
(* loadData step by step.  A call runs to its first await, and each later
   step is the continuation after one await: it assigns the field the
   awaited result is for.  Between two steps any other call may start or
   continue.  generate has no await: once in its loop it runs to its return
   before anything else does. *)

MaxLoads == 2

\* the datasets loaded and the number of names asked for
ConcDatasets == {<<"nord", "female">>, <<"orc", "male">>}
ConcCounts == {1}

\* loadData up to `await this.loadDirectory(firstnameDir)`
LoadStart(race, sex) ==
    /\ pc = "idle"
    /\ nextLoadId <= MaxLoads
    /\ currentRace' = race
    /\ currentSex' = sex
    /\ existingPairsCache' = invalidateCache(existingPairsCache)
    /\ inFlight' = inFlight \cup
            {[id |-> nextLoadId, race |-> race, sex |-> sex, step |-> "firstnames"]}
    /\ nextLoadId' = nextLoadId + 1
    /\ lastCall' = [Call("loadData") EXCEPT !.race = race, !.sex = sex,
                                            !.status = "pending"]
    /\ UNCHANGED <<allFirstnames, allLastnames, blacklistedFirstnames,
                   blacklistedLastnames, loaded, pc, frameVars, lastLoad,
                   levVars, uiVars, origin>>

\* this.allFirstnames = <the awaited records>
LoadFirstnames(call) ==
    /\ pc = "idle"
    /\ call.step = "firstnames"
    /\ allFirstnames' = loadDirectory(firstnameDir(call.race, call.sex))
    /\ origin' = [origin EXCEPT !.fn = call.id]
    /\ inFlight' = (inFlight \ {call}) \cup {[call EXCEPT !.step = "lastnames"]}
    /\ UNCHANGED <<allLastnames, blacklistedFirstnames, blacklistedLastnames,
                   loaded, currentRace, currentSex, existingPairsCache, pc,
                   frameVars, lastCall, lastLoad, levVars, uiVars, nextLoadId>>

\* this.allLastnames = <the awaited records>
LoadLastnames(call) ==
    /\ pc = "idle"
    /\ call.step = "lastnames"
    /\ allLastnames' = loadDirectory(lastnameDir(call.race))
    /\ origin' = [origin EXCEPT !.ln = call.id]
    /\ inFlight' = (inFlight \ {call}) \cup {[call EXCEPT !.step = "fnBlacklist"]}
    /\ UNCHANGED <<allFirstnames, blacklistedFirstnames, blacklistedLastnames,
                   loaded, currentRace, currentSex, existingPairsCache, pc,
                   frameVars, lastCall, lastLoad, levVars, uiVars, nextLoadId>>

\* the first blacklist fetch answers
LoadFnBlacklist(call, response) ==
    /\ pc = "idle"
    /\ call.step = "fnBlacklist"
    /\ blacklistedFirstnames' = blacklistAfter(blacklistedFirstnames, response)
    /\ origin' = [origin EXCEPT !.blFn = call.id]
    /\ inFlight' = (inFlight \ {call}) \cup {[call EXCEPT !.step = "lnBlacklist"]}
    /\ UNCHANGED <<allFirstnames, allLastnames, blacklistedLastnames,
                   loaded, currentRace, currentSex, existingPairsCache, pc,
                   frameVars, lastCall, lastLoad, levVars, uiVars, nextLoadId>>

\* the second blacklist fetch answers, and loadData runs to its end
LoadFinish(call, response) ==
    /\ pc = "idle"
    /\ call.step = "lnBlacklist"
    /\ blacklistedLastnames' = blacklistAfter(blacklistedLastnames, response)
    /\ origin' = [origin EXCEPT !.blLn = call.id]
    /\ LET error == loadError(allFirstnames, allLastnames)
       IN  /\ loaded' = loadedAfter(loaded, error)
           /\ lastLoad' = IF error = "" THEN "ok"
                           ELSE IF lastLoad = "ok" THEN "failedAfterOk"
                           ELSE "failed"
    /\ inFlight' = inFlight \ {call}
    /\ UNCHANGED <<allFirstnames, allLastnames, blacklistedFirstnames,
                   currentRace, currentSex, existingPairsCache, pc,
                   frameVars, lastCall, levVars, uiVars, nextLoadId>>

NextConc ==
    \/ \E dataset \in ConcDatasets : LoadStart(dataset[1], dataset[2])
    \/ \E call \in inFlight : LoadFirstnames(call)
    \/ \E call \in inFlight : LoadLastnames(call)
    \/ \E call \in inFlight, response \in FnBlacklistResponses :
            LoadFnBlacklist(call, response)
    \/ \E call \in inFlight, response \in LnBlacklistResponses :
            LoadFinish(call, response)
    \/ \E n \in ConcCounts, filter \in SourceFilters : Generate(n, filter)
    \/ GenerateStep
    \/ GenerateReturn

SpecConc == Init /\ [][NextConc]_vars

-----------------------------------------------------------------------------
(* The page: the click handler of the generate button.  A run of the handler
   goes from the click to loadData's first await in one task, waits for
   loadData, and then runs generate, getStats and the rendering to its end.
   The browser dispatches no click to a disabled button. *)

UICount == 10

\* what the race, sex and source selects can hold
UIDatasets == {<<"nord", "female">>, <<"orc", "male">>, <<"redguard", "male">>}
UISources == SourceFilters

\* where a run of the handler is: before its loadData call, suspended at
\* `await NPCGenerator.loadData(race, sex)`, or past it
notStarted(run) == run.load = nextLoadId
awaiting(run) == \E call \in inFlight : call.id = run.load
settled(run) == run.load < nextLoadId /\ ~awaiting(run)

\* no run is in the middle of a task: only then can a click or a fetch's
\* answer be handled
betweenTasks == pc = "idle" /\ \A run \in handlerRuns : awaiting(run)

\* (mutant) the handler leaves the button enabled
Click_ButtonLeftEnabled(race, sex, source) ==
    /\ betweenTasks
    /\ ~btnDisabled
    /\ nextLoadId <= MaxLoads
    /\ output' = [NoOutput EXCEPT !.kind = "loading"]
    /\ btnDisabled' = btnDisabled
    /\ handlerRuns' = handlerRuns \cup
            {[load |-> nextLoadId, race |-> race, sex |-> sex, source |-> source]}
    /\ UNCHANGED <<dataVars, existingPairsCache, pc, frameVars, lastCall, lastLoad,
                   levVars, loadVars, origin>>

\* the click, up to the call of loadData
Click(race, sex, source) ==
    /\ betweenTasks
    /\ ~btnDisabled
    /\ nextLoadId <= MaxLoads
    /\ output' = [NoOutput EXCEPT !.kind = "loading"]
    /\ btnDisabled' = TRUE
    /\ handlerRuns' = handlerRuns \cup
            {[load |-> nextLoadId, race |-> race, sex |-> sex, source |-> source]}
    /\ UNCHANGED <<dataVars, existingPairsCache, pc, frameVars, lastCall, lastLoad,
                   levVars, loadVars, origin>>

\* the error the try block has thrown, "" when none: loadData's rejection or
\* generate's throw
handlerError ==
    IF lastCall.op = "loadData"
    THEN (IF lastLoad # "ok" THEN loadError(allFirstnames, allLastnames) ELSE "")
    ELSE IF lastCall.op = "generate" /\ lastCall.status = "error" THEN lastCall.error
    ELSE ""

\* (mutant) the button is re-enabled inside the try block only
HandlerCatch_ButtonLeftDisabled(run) ==
    /\ pc = "idle"
    /\ settled(run)
    /\ handlerError # ""
    /\ output' = [NoOutput EXCEPT !.kind = "error", !.message = handlerError]
    /\ btnDisabled' = btnDisabled
    /\ handlerRuns' = handlerRuns \ {run}
    /\ UNCHANGED <<dataVars, existingPairsCache, pc, frameVars, lastCall, lastLoad,
                   levVars, loadVars, origin>>

\* the catch block, and the statement after it
HandlerCatch(run) ==
    /\ pc = "idle"
    /\ settled(run)
    /\ handlerError # ""
    /\ output' = [NoOutput EXCEPT !.kind = "error", !.message = handlerError]
    /\ btnDisabled' = FALSE
    /\ handlerRuns' = handlerRuns \ {run}
    /\ UNCHANGED <<dataVars, existingPairsCache, pc, frameVars, lastCall, lastLoad,
                   levVars, loadVars, origin>>

\* generate has returned: getStats, the rendering, and the statement after
\* the try block
HandlerShow(run) ==
    /\ pc = "idle"
    /\ settled(run)
    /\ lastCall.op = "generate"
    /\ lastCall.status = "ok"
    /\ lastCall' = [Call("getStats") EXCEPT
                        !.filter = run.source, !.status = "ok",
                        !.stats = getStats(run.source)]
    /\ output' = IF Len(lastCall.value) = 0
                 THEN [NoOutput EXCEPT !.kind = "empty"]
                 ELSE [NoOutput EXCEPT !.kind = "results", !.names = lastCall.value,
                                       !.stats = getStats(run.source)]
    /\ btnDisabled' = FALSE
    /\ handlerRuns' = handlerRuns \ {run}
    /\ UNCHANGED <<dataVars, existingPairsCache, pc, frameVars, lastLoad,
                   levVars, loadVars, origin>>

\* everything a run does after its click
HandlerProgress ==
    \/ \E run \in handlerRuns : notStarted(run) /\ LoadStart(run.race, run.sex)
    \/ \E call \in inFlight : betweenTasks /\ LoadFirstnames(call)
    \/ \E call \in inFlight : betweenTasks /\ LoadLastnames(call)
    \/ \E call \in inFlight, response \in FnBlacklistResponses :
            betweenTasks /\ LoadFnBlacklist(call, response)
    \/ \E call \in inFlight, response \in LnBlacklistResponses :
            betweenTasks /\ LoadFinish(call, response)
    \/ \E run \in handlerRuns :
            /\ settled(run)
            /\ lastCall.op = "loadData"
            /\ lastLoad = "ok"
            /\ Generate(UICount, run.source)
    \/ GenerateStep
    \/ GenerateReturn
    \/ \E run \in handlerRuns : HandlerCatch(run)
    \/ \E run \in handlerRuns : HandlerShow(run)

NextUI ==
    \/ \E dataset \in UIDatasets, source \in UISources :
            Click(dataset[1], dataset[2], source)
    \/ HandlerProgress

\* a click may never come; a run that can go on does go on: its tasks are
\* run by the event loop, and every fetch is answered
SpecUI == Init /\ [][NextUI]_vars /\ WF_vars(HandlerProgress)

-----------------------------------------------------------------------------
(* What the claims speak of, stated without the generator's keys and cache *)

\* the existing pairs: a firstname and a lastname loaded under one provenance tag
ExistingPairs ==
    {<<toLowerCase(allFirstnames[p[1]].name), toLowerCase(allLastnames[p[2]].name)>> :
        p \in {q \in (1..Len(allFirstnames)) \X (1..Len(allLastnames)) :
                 allFirstnames[q[1]].source = allLastnames[q[2]].source}}

\* the standard edit distance: insertion, deletion, substitution cost 1 each
RECURSIVE EditDistance(_, _)
EditDistance(a, b) ==
    IF a = <<>> THEN Len(b)
    ELSE IF b = <<>> THEN Len(a)
    ELSE Min2(EditDistance(Tail(a), Tail(b)) + (IF Head(a) = Head(b) THEN 0 ELSE 1),
              Min2(EditDistance(Tail(a), b) + 1, EditDistance(a, Tail(b)) + 1))

\* an existing pair with lastname l has a firstname fewer than 3 edits from f
NearExisting(f, l) ==
    \E e \in ExistingPairs :
        /\ e[2] = toLowerCase(l)
        /\ EditDistance(toLowerCase(f), e[1]) < 3

\* the pairs a generate call has returned, or holds so far
Returned == IF pc = "loop" THEN results
            ELSE IF lastCall.op = "generate" THEN lastCall.value
            ELSE <<>>

\* no record of the role passes the source filter and the blacklist
PoolIsEmpty(records, blacklist, filter) ==
    \A i \in 1..Len(records) :
        \/ filter = "vanilla" /\ records[i].source # "vanilla"
        \/ filter = "expanded" /\ records[i].source \notin {"tr", "sky", "pc"}
        \/ toLowerCase(records[i].name) \in blacklist

-----------------------------------------------------------------------------
(* C1: no pair generate returns is, compared case-insensitively, a firstname
   and a lastname that were loaded under one common provenance tag. *)
C1_NoExactExistingPair ==
    \A k \in 1..Len(Returned) :
        <<toLowerCase(Returned[k].firstname), toLowerCase(Returned[k].lastname)>>
            \notin ExistingPairs

\* generate holds a pair while it has also drawn an existing pair of its pools
C1_Witness ==
    /\ pc = "loop"
    /\ Len(results) >= 1
    /\ \E i \in 1..Len(firstnames), j \in 1..Len(lastnames) :
        /\ <<toLowerCase(firstnames[i]), toLowerCase(lastnames[j])>> \in ExistingPairs
        /\ PairKey(toLowerCase(firstnames[i]), toLowerCase(lastnames[j])) \in attempted

(* C2 (as claimed): no returned pair (f, l) has an existing pair with the same
   lowercased lastname whose firstname is at edit distance 0, 1 or 2 from f. *)
C2_NoNearExistingPair ==
    \A k \in 1..Len(Returned) :
        ~NearExisting(Returned[k].firstname, Returned[k].lastname)

(* C3: within one generate call no two returned pairs are equal when firstname
   and lastname are compared case-insensitively. *)
C3_NoDuplicateResults ==
    \A k, m \in 1..Len(Returned) :
        (/\ toLowerCase(Returned[k].firstname) = toLowerCase(Returned[m].firstname)
         /\ toLowerCase(Returned[k].lastname) = toLowerCase(Returned[m].lastname))
            => k = m

\* two pairs are held and some draw repeated an already attempted key
C3_Witness ==
    /\ pc = "loop"
    /\ Len(results) >= 2
    /\ attempts > Cardinality(attempted)

(* C4: a generate call that passed its precondition checks makes at most
   count * K draw attempts (K = 500): every pass of the loop, whether it
   repeats a key, is rejected or is accepted, adds one to the attempts, a
   draw is always possible (both pools are non-empty), and once count * K
   attempts are made the call returns. *)
C4_BoundedAttempts ==
    [][/\ pc' = "loop" => attempts' <= count' * 500
       /\ pc' = "loop" => (Len(firstnames') > 0 /\ Len(lastnames') > 0)
       /\ (pc = "loop" /\ pc' = "loop") => attempts' = attempts + 1
       /\ (pc = "loop" /\ attempts >= count * 500) => pc' = "idle"]_vars

\* the whole budget is used, repeats and rejections having counted toward it
C4_Witness ==
    /\ pc = "loop"
    /\ count >= 1
    /\ attempts = count * 500
    /\ attempts > Cardinality(attempted)
    /\ Cardinality(attempted) > Len(results)

(* C5: generate never holds or returns more than count pairs and makes no
   draw once it holds count pairs: it then returns them; generate(0, filter)
   past its precondition checks returns the empty sequence, with no draw. *)
C5_StopsAtCount ==
    [][/\ Len(results') <= count'
       /\ (lastCall'.op = "generate" /\ lastCall'.status = "ok")
            => Len(lastCall'.value) <= lastCall'.count
       /\ (pc = "loop" /\ Len(results) >= count)
            => (pc' = "idle" /\ lastCall'.status = "ok" /\ lastCall'.value = results)
       /\ (pc = "loop" /\ count = 0) => (draws = 0 /\ lastCall'.value = <<>>)]_vars

\* count pairs are held before the attempt budget is used up
C5_Witness ==
    /\ pc = "loop"
    /\ count >= 1
    /\ Len(results) = count
    /\ attempts < count * 500

(* C6 (as claimed): if every pair of the filtered pools already exists or is
   too similar to an existing pair, generate(N, filter), N > 0, yields fewer
   than N pairs, and leaves its loop only with all N * K attempts made. *)
C6_SaturatedPoolsYieldFewer ==
    (/\ pc = "loop"
     /\ count > 0
     /\ \A i \in 1..Len(firstnames), j \in 1..Len(lastnames) :
            NearExisting(firstnames[i], lastnames[j]))
        => /\ Len(results) < count
           /\ ~loopCondition(results, count, attempts) => attempts = count * 500

(* C7: generate fails with the not-loaded error, with no pair and no draw,
   exactly when no loadData has ended yet or the last one to end failed; a
   loadData that fails leaves the generator not loaded, also after an earlier
   load that succeeded. *)
C7_NotLoadedError ==
    [][/\ (pc = "idle" /\ lastCall'.op = "generate")
            => /\ (lastCall'.error = "Data not loaded") <=> (lastLoad # "ok")
               /\ lastCall'.error = "Data not loaded"
                    => /\ lastCall'.status = "error"
                       /\ lastCall'.value = <<>>
                       /\ pc' = "idle"
                       /\ draws' = 0
       /\ (lastCall'.op = "loadData" /\ lastCall'.status = "error") => ~loaded'
       /\ (lastCall'.op = "loadData" /\ lastCall'.status = "ok") => loaded']_vars

\* generate has failed as not loaded after a failed load that followed a
\* successful one
C7_Witness ==
    /\ lastCall.op = "generate"
    /\ lastCall.error = "Data not loaded"
    /\ lastLoad = "failedAfterOk"

(* C8: on a loaded dataset a generate call whose filtered, blacklist-cleaned
   firstname or lastname pool is empty fails with the error of that role and
   changes no generator state; a call whose two pools are non-empty passes
   the precondition checks, also right after such a failure. *)
C8_EmptyPoolError ==
    [][(pc = "idle" /\ loaded /\ lastCall'.op = "generate")
        => LET filter == lastCall'.filter
               noFn == PoolIsEmpty(allFirstnames, blacklistedFirstnames, filter)
               noLn == PoolIsEmpty(allLastnames, blacklistedLastnames, filter)
           IN  IF noFn \/ noLn
               THEN /\ lastCall'.status = "error"
                    /\ lastCall'.error =
                         (IF noFn
                          THEN "No firstnames available (check source filter and blacklist)"
                          ELSE "No lastnames available (check source filter and blacklist)")
                    /\ pc' = "idle"
                    /\ UNCHANGED <<dataVars, existingPairsCache>>
               ELSE /\ pc' = "loop"
                    /\ lastCall'.status = "running"]_vars

\* a call has failed on the empty lastname pool of its filter while another
\* filter of the same dataset has both pools non-empty
C8_Witness ==
    /\ pc = "idle"
    /\ loaded
    /\ lastCall.op = "generate"
    /\ lastCall.error = "No lastnames available (check source filter and blacklist)"
    /\ \E filter \in SourceFilters :
        /\ ~PoolIsEmpty(allFirstnames, blacklistedFirstnames, filter)
        /\ ~PoolIsEmpty(allLastnames, blacklistedLastnames, filter)

(* C9 (as claimed): loadData fails whenever, after the blacklists are applied,
   the firstname pool or the lastname pool of the requested race/sex is
   empty, and never reports success for such a dataset. *)
C9_LoadFailsOnEmptyPool ==
    (\/ PoolIsEmpty(allFirstnames, blacklistedFirstnames, "all")
     \/ PoolIsEmpty(allLastnames, blacklistedLastnames, "all"))
        => /\ ~loaded
           /\ lastCall.op = "loadData" => lastCall.status = "error"

(* C10 (as claimed): after a loadData that succeeded, the records, both
   blacklists and the existing-pair index are those of that load only; a
   blacklist whose file that load did not get is empty. *)
C10_ReloadDiscardsPrior ==
    (lastCall.op = "loadData" /\ lastCall.status = "ok")
        => /\ allFirstnames = loadDirectory(firstnameDir(lastCall.race, lastCall.sex))
           /\ allLastnames = loadDirectory(lastnameDir(lastCall.race))
           /\ ~existingPairsCache.built
           /\ blacklistedFirstnames =
                (IF lastCall.fnResponse.ok
                 THEN parseBlacklist(lastCall.fnResponse.text) ELSE {})
           /\ blacklistedLastnames =
                (IF lastCall.lnResponse.ok
                 THEN parseBlacklist(lastCall.lnResponse.text) ELSE {})

-----------------------------------------------------------------------------
\* the names a pool lists
NamesOf(pool) == {pool[i] : i \in 1..Len(pool)}

\* the names loaded under a provenance tag other than the base one
NonBaseNames(records) ==
    {records[i].name : i \in {k \in 1..Len(records) : records[k].source # "vanilla"}}

(* C11: the pools getFirstnames('expanded') and getLastnames('expanded') list
   only names of records whose provenance tag is not 'vanilla', and no name
   whose lowercased text is in the blacklist of its role. *)
C11_ExpandedPoolsExcludeBase ==
    /\ \A name \in NamesOf(getFirstnames("expanded")) :
            /\ name \in NonBaseNames(allFirstnames)
            /\ toLowerCase(name) \notin blacklistedFirstnames
    /\ \A name \in NamesOf(getLastnames("expanded")) :
            /\ name \in NonBaseNames(allLastnames)
            /\ toLowerCase(name) \notin blacklistedLastnames

\* a loaded dataset holding a base firstname, a blacklisted non-base firstname
\* and a non-base firstname that the expanded pool lists
C11_Witness ==
    /\ loaded
    /\ \E i \in 1..Len(allFirstnames) : allFirstnames[i].source = "vanilla"
    /\ \E i \in 1..Len(allFirstnames) :
            /\ allFirstnames[i].source # "vanilla"
            /\ toLowerCase(allFirstnames[i].name) \in blacklistedFirstnames
    /\ getFirstnames("expanded") # <<>>
    /\ getLastnames("expanded") # <<>>

-----------------------------------------------------------------------------
\* the lowercased names a pool lists
LowerNamesOf(pool) == {toLowerCase(pool[i]) : i \in 1..Len(pool)}

\* the lowercased, non-blacklisted names of the records tagged with one of `tags`
EligibleNames(records, blacklist, tags) ==
    {toLowerCase(records[i].name) :
        i \in {k \in 1..Len(records) :
                 /\ records[k].source \in tags
                 /\ toLowerCase(records[k].name) \notin blacklist}}

\* the provenance tags of the loaded records of a role
TagsOf(records) == {records[i].source : i \in 1..Len(records)}

(* C12 as stated: every non-blacklisted name loaded under any provenance tag
   other than 'vanilla', the tag of a custom file of a manifest included, is
   in the expanded pool of its role. *)
C12_ExpandedSelectsAllNonBase ==
    /\ EligibleNames(allFirstnames, blacklistedFirstnames,
                     TagsOf(allFirstnames) \ {"vanilla"})
            \subseteq LowerNamesOf(getFirstnames("expanded"))
    /\ EligibleNames(allLastnames, blacklistedLastnames,
                     TagsOf(allLastnames) \ {"vanilla"})
            \subseteq LowerNamesOf(getLastnames("expanded"))

(* C12 as amended: the 'expanded' filter selects the provenance tags tr, sky
   and pc.  The expanded pool of a role lists, compared case-insensitively,
   exactly the non-blacklisted names loaded under one of these three tags; a
   name loaded only under another tag (a custom file) is not in it. *)
C12_ExpandedSelectsTrSkyPc ==
    /\ LowerNamesOf(getFirstnames("expanded"))
            = EligibleNames(allFirstnames, blacklistedFirstnames, {"tr", "sky", "pc"})
    /\ LowerNamesOf(getLastnames("expanded"))
            = EligibleNames(allLastnames, blacklistedLastnames, {"tr", "sky", "pc"})

\* a loaded dataset with a custom lastname that the expanded pool leaves out
\* and a pc lastname that it lists
C12_Witness ==
    /\ loaded
    /\ \E i, j \in 1..Len(allLastnames) :
        /\ allLastnames[i].source = "custom"
        /\ toLowerCase(allLastnames[i].name) \notin blacklistedLastnames
        /\ toLowerCase(allLastnames[i].name) \notin LowerNamesOf(getLastnames("expanded"))
        /\ allLastnames[j].source = "pc"
        /\ allLastnames[j].name \in NamesOf(getLastnames("expanded"))

-----------------------------------------------------------------------------
\* the source filter lets a record of this provenance tag through
Passes(source, filter) ==
    \/ filter = "all"
    \/ filter = "vanilla" /\ source = "vanilla"
    \/ filter = "expanded" /\ source \in {"tr", "sky", "pc"}

\* the positions of the records that pass the filter and the blacklist
Selected(records, blacklist, filter) ==
    {i \in 1..Len(records) :
        /\ Passes(records[i].source, filter)
        /\ toLowerCase(records[i].name) \notin blacklist}

\* the first selected position holding `name`, compared case-insensitively
FirstOccurrence(records, selected, name) ==
    CHOOSE i \in selected :
        /\ toLowerCase(records[i].name) = toLowerCase(name)
        /\ \A j \in selected :
                toLowerCase(records[j].name) = toLowerCase(name) => i <= j

\* no two entries equal after lowercasing; each entry is a selected record's
\* name in the casing of its first occurrence; entries in order of first occurrence
PoolIsOrderedAndUnique(pool, records, blacklist, filter) ==
    LET selected == Selected(records, blacklist, filter)
        entries == pool
        lowered == [k \in 1..Len(entries) |-> toLowerCase(entries[k])]
        first == [k \in 1..Len(entries) |->
                    FirstOccurrence(records, selected, entries[k])]
    IN  /\ \A k, m \in 1..Len(entries) : k # m => lowered[k] # lowered[m]
        /\ \A k \in 1..Len(entries) :
                /\ \E i \in selected : toLowerCase(records[i].name) = lowered[k]
                /\ entries[k] = records[first[k]].name
        /\ \A k, m \in 1..Len(entries) : k < m => first[k] < first[m]

(* C13: for every source filter, the pools of getFirstnames and getLastnames
   hold no two entries equal after lowercasing, give each name in the casing
   of its first occurrence among the records the filter selects, and list the
   names in the order of those first occurrences. *)
C13_PoolsUniqueInFirstOccurrenceOrder ==
    \A filter \in SourceFilters :
        /\ PoolIsOrderedAndUnique(getFirstnames(filter), allFirstnames,
                                  blacklistedFirstnames, filter)
        /\ PoolIsOrderedAndUnique(getLastnames(filter), allLastnames,
                                  blacklistedLastnames, filter)

\* a loaded dataset where a firstname occurs twice in different casing, is
\* listed once in the casing of the earlier record, and is followed by a
\* later name
C13_Witness ==
    /\ loaded
    /\ \E i, j \in 1..Len(allFirstnames) :
        /\ i < j
        /\ allFirstnames[i].name # allFirstnames[j].name
        /\ toLowerCase(allFirstnames[i].name) = toLowerCase(allFirstnames[j].name)
        /\ allFirstnames[i].name \in NamesOf(getFirstnames("all"))
        /\ allFirstnames[j].name \notin NamesOf(getFirstnames("all"))
    /\ Len(getFirstnames("all")) >= 2

-----------------------------------------------------------------------------
(* C14: for all strings a, b of at most MaxLen characters over the alphabet,
   levenshteinDistance(a, b) is the standard edit distance between their
   lowercased forms; the distance from "" to s is the length of s. *)
C14_IsEditDistanceOfLowercased ==
    levDistance # -1 =>
        /\ levDistance = EditDistance(toLowerCase(levA), toLowerCase(levB))
        /\ levA = <<>> => levDistance = Len(levB)
        /\ levB = <<>> => levDistance = Len(levA)

\* a call on two different non-empty strings of different lengths that need
\* a substitution and an insertion
C14_Witness ==
    /\ levA = <<"a", "b">>
    /\ levB = <<"b", "a", "A">>
    /\ levDistance = EditDistance(<<"a", "b">>, <<"b", "a", "a">>)
    /\ levDistance >= 2

(* C15: levenshteinDistance gives the same value with its arguments swapped,
   and gives 0 for two strings that are equal or differ only in letter case. *)
C15_SymmetricAndZeroOnSameText ==
    levDistance # -1 =>
        /\ levDistance = levenshteinDistance(levB, levA)
        /\ toLowerCase(levA) = toLowerCase(levB) => levDistance = 0

\* a call on two strings that differ in letter case only
C15_Witness ==
    /\ levA # levB
    /\ levA # <<>>
    /\ toLowerCase(levA) = toLowerCase(levB)
    /\ levDistance = 0

-----------------------------------------------------------------------------
\* the verdict of the novelty check on (f, l) for the loaded dataset, from
\* the records of every provenance: it names no source filter
VerdictOnAllRecords(f, l) ==
    isTooSimilarToExisting(f, l, buildExistingPairs(allFirstnames, allLastnames))

\* the verdict the check would give if it consulted only the records that
\* the source filter selects
VerdictOnFilteredRecords(f, l, filter) ==
    isTooSimilarToExisting(f, l,
        buildExistingPairs(filterBySource(allFirstnames, filter),
                           filterBySource(allLastnames, filter)))

(* C16: the source filter restricts the candidate pools only.  Whatever the
   filter of the running generate call and of the calls before it, a pair
   (f, l) drawn for the first time is rejected exactly when the novelty check
   on the records of every loaded provenance rejects it, so the verdict on a
   pair is the same under every source filter. *)
C16_VerdictIgnoresSourceFilter ==
    [][pc = "loop" /\ attempted' # attempted =>
        \A i \in 1..Len(firstnames), j \in 1..Len(lastnames) :
            PairKey(toLowerCase(firstnames[i]), toLowerCase(lastnames[j]))
                    \in attempted' \ attempted
                => (results' = results <=> VerdictOnAllRecords(firstnames[i], lastnames[j]))]_vars

\* generate under 'expanded' has rejected a pair that the records selected
\* by 'expanded' alone would have let through
C16_Witness ==
    /\ pc = "loop"
    /\ sourceFilter = "expanded"
    /\ \E i \in 1..Len(firstnames), j \in 1..Len(lastnames) :
        /\ PairKey(toLowerCase(firstnames[i]), toLowerCase(lastnames[j])) \in attempted
        /\ \A k \in 1..Len(results) :
                results[k] # [firstname |-> firstnames[i], lastname |-> lastnames[j]]
        /\ VerdictOnAllRecords(firstnames[i], lastnames[j])
        /\ ~VerdictOnFilteredRecords(firstnames[i], lastnames[j], "expanded")

-----------------------------------------------------------------------------
\* the keys of the existing pairs of the records now loaded, built without
\* the generator's per-source maps
KeysOfLoadedRecords ==
    {e[1] \o <<"|">> \o e[2] : e \in ExistingPairs}

(* C17: the existing-pair set is built at most once between two loadData
   calls: a step of the generate loop that checks a pair while no set is
   held builds it from the loaded records, a step that finds one held keeps
   it as it is, no other call builds or changes it, and every loadData call
   discards it, so that the first check after a reload builds it from the
   new records. *)
C17_CacheBuiltOncePerLoad ==
    [][/\ ~existingPairsCache.built /\ existingPairsCache'.built =>
            /\ pc = "loop"
            /\ attempted' # attempted
            /\ existingPairsCache'.pairs = KeysOfLoadedRecords
       /\ existingPairsCache.built /\ existingPairsCache'.built =>
            existingPairsCache' = existingPairsCache
       /\ pc = "loop" /\ attempted' # attempted => existingPairsCache'.built
       /\ lastCall'.op = "loadData" /\ lastCall' # lastCall => ~existingPairsCache'.built
       /\ existingPairsCache.built /\ ~existingPairsCache'.built =>
            lastCall'.op = "loadData"
       /\ existingPairsCache'.built => existingPairsCache'.pairs = KeysOfLoadedRecords]_vars

\* a set built by an earlier generate call is held as a later generate call
\* on the same dataset enters its loop
C17_Witness ==
    /\ existingPairsCache.built
    /\ existingPairsCache.pairs # {}
    /\ lastLoad = "ok"
    /\ currentRace = "imperial"
    /\ pc = "loop"
    /\ attempts = 0

-----------------------------------------------------------------------------
\* all loaded records, firstnames and lastnames, carry one provenance tag
SingleTag == Cardinality(TagsOf(allFirstnames) \cup TagsOf(allLastnames)) <= 1

(* C18: the existing-pair set generate holds is exactly the union over the
   provenance tags of (lowercased firstnames of the tag) x (lowercased
   lastnames of the tag), blacklisted records included; generate accepts a
   pair (f, l) drawn for the first time exactly when no tag holds l together
   with a firstname fewer than 3 edits from f; and when all loaded records
   share one tag generate returns an empty result. *)
C18_AcceptsIffNoTagHoldsNearPair ==
    [][/\ existingPairsCache'.built => existingPairsCache'.pairs = KeysOfLoadedRecords
       /\ pc = "loop" /\ attempted' # attempted =>
            \A i \in 1..Len(firstnames), j \in 1..Len(lastnames) :
                PairKey(toLowerCase(firstnames[i]), toLowerCase(lastnames[j]))
                        \in attempted' \ attempted
                    => (results' # results <=> ~NearExisting(firstnames[i], lastnames[j]))
       /\ SingleTag => results' = <<>>]_vars

-----------------------------------------------------------------------------
(* C19: no step of a generate call and no getStats call changes the loaded
   records, the two blacklists, the loaded flag or the current race and sex;
   a generate step changes the existing-pairs cache at most by building it,
   and getStats leaves the cache as it is too. *)
C19_GenerateAndGetStatsFrame ==
    [][/\ lastCall'.op \in {"generate", "getStats"} => UNCHANGED dataVars
       /\ lastCall'.op = "generate" /\ existingPairsCache' # existingPairsCache =>
            ~existingPairsCache.built /\ existingPairsCache'.built
       /\ lastCall'.op = "getStats" => UNCHANGED existingPairsCache]_vars

\* getStats has reported on a loaded dataset whose cache an earlier generate
\* call had built
C19_Witness ==
    /\ lastCall.op = "getStats"
    /\ lastCall.stats.totalFirstnames = Len(allFirstnames)
    /\ lastCall.stats.uniqueFirstnames > 0
    /\ lastCall.stats.blacklistedLastnames > 0
    /\ loaded
    /\ existingPairsCache.built

-----------------------------------------------------------------------------
(* C20: at every point where other code can run between the awaits of
   loadData, whenever the loaded flag is true the firstname records, the
   lastname records, the two blacklists and, when one is held, the
   existing-pairs cache all come from one and the same loadData call. *)
C20_LoadedDataFromOneLoad ==
    loaded =>
        /\ origin.ln = origin.fn
        /\ origin.blFn = origin.fn
        /\ origin.blLn = origin.fn
        /\ existingPairsCache.built => origin.cache = <<origin.fn, origin.fn>>

-----------------------------------------------------------------------------
(* C21: in the click handler the generate button is disabled before loadData
   starts, and is enabled again when the run of the handler finishes, both
   when loadData and generate succeed and when either throws; no two runs
   started by clicks overlap; and every click is eventually followed by the
   button being enabled again. *)
C21_ButtonGuardsHandlerRun ==
    /\ [][/\ nextLoadId' # nextLoadId => btnDisabled /\ btnDisabled'
          /\ handlerRuns' # handlerRuns /\ handlerRuns' \subseteq handlerRuns =>
                ~btnDisabled'
          /\ handlerRuns' # {} => btnDisabled']_vars
    /\ [](Cardinality(handlerRuns) <= 1)
    /\ [](handlerRuns # {} => <>(handlerRuns = {} /\ ~btnDisabled))

\* two clicks, one after the other's run had finished: the second run's
\* loadData threw, the catch block rendered the error and the button is
\* enabled again
C21_Witness ==
    /\ lastLoad = "failedAfterOk"
    /\ nextLoadId = 3
    /\ handlerRuns = {}
    /\ output.kind = "error"
    /\ output.message = "No lastnames found"
    /\ ~btnDisabled
=============================================================================
